---- MODULE Spec2Model ----
(***************************************************************************)
(* Model of the Mammut client (src/lib.rs): the Mastodon value built by    *)
(* from_data / from_registration, the request methods generated by the     *)
(* methods!, route!, route_id! and paged_routes! macros, and deserialise.  *)
(* The registration flow (registration.rs) and the pagination cursor       *)
(* (page.rs) are not part of lib.rs and are modelled from the              *)
(* specification document.                                                 *)
(***************************************************************************)
EXTENDS Integers, Sequences, FiniteSets, TLC

VARIABLES reg, mastodon, page, last

vars == <<reg, mastodon, page, last>>

(* ------------------------------ bounds --------------------------------- *)

\* Entity ids passed to the route_id! methods range over 1..MaxId.
MaxId == 2

(* ------------------------------ values --------------------------------- *)

Base == "https://ex.social"

Tokens == {"", "tok123"}

Redirect == "urn:ietf:wg:oauth:2.0:oob"

\* Option<String>: <<>> is None, <<s>> is Some(s).
None == <<>>

Some(x) == <<x>>

\* HTTP status codes a response may carry: one 2xx, one 4xx, one 5xx.
Statuses == {200, 404, 503}

is_client_error(status) == status >= 400 /\ status < 500

is_server_error(status) == status >= 500 /\ status < 600

(* ------------------------- response bodies ----------------------------- *)

\* A body is raw bytes: either not JSON at all, or a JSON object given by
\* its fields.
Garbage == [json |-> FALSE, obj |-> [junk |-> "x"]]

JsonObj(o) == [json |-> TRUE, obj |-> o]

Bodies ==
    { Garbage,
      JsonObj([id |-> "1"]),
      JsonObj([error |-> "invalid_grant"]),
      JsonObj([error |-> "Record not found", error_description |-> "gone"]),
      JsonObj([id |-> "1", error |-> "invalid_grant", error_description |-> "gone"]),
      JsonObj([error_description |-> "gone"]) }

HasField(body, f) == body.json /\ f \in DOMAIN body.obj

(* ----------------------------- results --------------------------------- *)

\* A Result<T> returned to the caller.  kind is "Ok" or the Error variant;
\* the other fields carry that variant's payload and are empty otherwise.
NoResult ==
    [kind |-> "none", status |-> 0, api |-> <<>>, val |-> <<>>,
     serde |-> "", page |-> <<>>]

Ok(v) == [NoResult EXCEPT !.kind = "Ok", !.val = <<v>>]

ErrApi(e) == [NoResult EXCEPT !.kind = "Api", !.api = <<e>>]

ErrSerde(e) == [NoResult EXCEPT !.kind = "Serde", !.serde = e]

ErrHttp == [NoResult EXCEPT !.kind = "Http"]

ErrIo == [NoResult EXCEPT !.kind = "Io"]

ErrClient(status) == [NoResult EXCEPT !.kind = "Client", !.status = status]

ErrServer(status) == [NoResult EXCEPT !.kind = "Server", !.status = status]

(* ----------------------------- decoding -------------------------------- *)

\* json::from_slice into the success type T.  T stands for an entity with
\* one required field, id; unknown fields are ignored.
from_slice_T(body) ==
    IF HasField(body, "id")
    THEN [ok |-> TRUE, val |-> <<[id |-> body.obj.id]>>, err |-> ""]
    ELSE [ok |-> FALSE, val |-> <<>>, err |-> "success-type"]

\* json::from_slice into ApiError: error is required, error_description
\* is an Option, unknown fields are ignored.
from_slice_ApiError(body) ==
    IF HasField(body, "error")
    THEN [ok |-> TRUE,
          val |-> <<[error |-> body.obj.error,
                     error_description |->
                        IF HasField(body, "error_description")
                        THEN Some(body.obj.error_description)
                        ELSE None]>>,
          err |-> ""]
    ELSE [ok |-> FALSE, val |-> <<>>, err |-> "error-payload"]

\* deserialise giving up after the first decode attempt.
deserialise_no_second_attempt(response) ==
    IF ~response.readOk
    THEN ErrIo
    ELSE LET first == from_slice_T(response.body) IN
         IF first.ok THEN Ok(first.val[1]) ELSE ErrSerde(first.err)

\* deserialise passing up the failure of the second decode attempt.
deserialise_second_failure(response) ==
    IF ~response.readOk
    THEN ErrIo
    ELSE LET first == from_slice_T(response.body) IN
         IF first.ok
         THEN Ok(first.val[1])
         ELSE LET second == from_slice_ApiError(response.body) IN
              IF second.ok
              THEN ErrApi(second.val[1])
              ELSE ErrSerde(second.err)

\* deserialise trying the error payload before the success type.
deserialise_error_first(response) ==
    IF ~response.readOk
    THEN ErrIo
    ELSE LET second == from_slice_ApiError(response.body) IN
         IF second.ok
         THEN ErrApi(second.val[1])
         ELSE LET first == from_slice_T(response.body) IN
              IF first.ok THEN Ok(first.val[1]) ELSE ErrSerde(first.err)

\* deserialise(response): read the body, decode it as T, and only when that
\* fails decode it as ApiError; when both fail pass up the first failure.
deserialise(response) ==
    IF ~response.readOk
    THEN ErrIo
    ELSE LET first == from_slice_T(response.body) IN
         IF first.ok
         THEN Ok(first.val[1])
         ELSE LET second == from_slice_ApiError(response.body) IN
              IF second.ok
              THEN ErrApi(second.val[1])
              ELSE ErrSerde(first.err)

(* ----------------------------- responses ------------------------------- *)

\* What the transport hands back for one request: send() failing, or a
\* response with a status, link headers and a body that may fail to read.
NoResp ==
    [sent |-> FALSE, status |-> 0, readOk |-> FALSE, body |-> Garbage,
     next |-> None, prev |-> None]

Resp(status, body) ==
    [sent |-> TRUE, status |-> status, readOk |-> TRUE, body |-> body,
     next |-> None, prev |-> None]

SendFailed == NoResp

ReadFailed(status) == [Resp(status, Garbage) EXCEPT !.readOk = FALSE]

Responses ==
    {SendFailed}
      \cup {ReadFailed(st) : st \in Statuses}
      \cup {Resp(st, b) : st \in Statuses, b \in Bodies}

(* ----------------------------- Mastodon -------------------------------- *)

NoMastodon ==
    [built |-> "none",
     data |-> [base |-> "", client_id |-> "", client_secret |-> "",
               redirect |-> "", token |-> ""],
     headers |-> [bearer |-> ""]]

\* from_registration with the two credentials in each other's place.
from_registration_swapped(base, client_id, client_secret, redirect, token) ==
    LET data == [base |-> base, client_id |-> client_secret,
                 client_secret |-> client_id, redirect |-> redirect,
                 token |-> token]
    IN [built |-> "from_registration",
        data |-> data,
        headers |-> [bearer |-> data.token]]

\* Mastodon::from_registration: the Data record and the Authorization
\* header built from its token.
from_registration(base, client_id, client_secret, redirect, token) ==
    LET data == [base |-> base, client_id |-> client_id,
                 client_secret |-> client_secret, redirect |-> redirect,
                 token |-> token]
    IN [built |-> "from_registration",
        data |-> data,
        headers |-> [bearer |-> data.token]]

\* from_data building the header from the client secret.
from_data_secret_header(data) ==
    [built |-> "from_data",
     data |-> data,
     headers |-> [bearer |-> data.client_secret]]

\* Mastodon::from_data
from_data(data) ==
    [built |-> "from_data",
     data |-> data,
     headers |-> [bearer |-> data.token]]

\* Mastodon::route
route(self, url) == self.data.base \o url

(* ----------------------------- requests -------------------------------- *)

Request(method, url, self, body) ==
    [method |-> method, url |-> url, bearer |-> self.headers.bearer,
     body |-> body]

\* The outcome of one call: the requests it put on the wire and the
\* Result it returned.
Outcome(reqs, result) == [reqs |-> reqs, result |-> result]

\* methods! sending the request again when send() fails.
methods_retry(method, self, url, resp) ==
    IF ~resp.sent
    THEN Outcome(<<Request(method, url, self, "none"),
                   Request(method, url, self, "none")>>, ErrHttp)
    ELSE Outcome(<<Request(method, url, self, "none")>>, deserialise(resp))

\* methods!: fn get/post/delete(&self, url) -- send, then deserialise.
methods(method, self, url, resp) ==
    Outcome(<<Request(method, url, self, "none")>>,
            IF ~resp.sent THEN ErrHttp ELSE deserialise(resp))

\* The status check of the routes that carry a body.
status_check(resp) ==
    IF is_client_error(resp.status) THEN ErrClient(resp.status)
    ELSE IF is_server_error(resp.status) THEN ErrServer(resp.status)
    ELSE deserialise(resp)

\* route! arm for (method (params)): a JSON body, status checked first.
route_json(method, self, url, resp) ==
    Outcome(<<Request(method, route(self, "/api/v1/" \o url), self, "json")>>,
            IF ~resp.sent THEN ErrHttp ELSE status_check(resp))

\* route! arm for (post multipart (params)): the files are opened first.
route_multipart(self, url, fileOk, resp) ==
    IF ~fileOk
    THEN Outcome(<<>>, ErrIo)
    ELSE Outcome(<<Request("post", route(self, "/api/v1/" \o url), self,
                           "multipart")>>,
                 IF ~resp.sent THEN ErrHttp ELSE status_check(resp))

\* route! arm for (method): no body, through methods!.
route_plain(method, self, url, resp) ==
    methods(method, self, route(self, "/api/v1/" \o url), resp)

\* route_id!: the id is formatted into the path, through methods!.
route_id(method, self, prefix, id, suffix, resp) ==
    methods(method, self,
            route(self, "/api/v1/" \o prefix \o ToString(id) \o suffix), resp)

(* --------------------------- the state --------------------------------- *)

\* last describes the most recent operation: its name, the requests it
\* put on the wire, the response the transport gave, and what it returned.
NoCall == [op |-> "init", reqs |-> <<>>, resp |-> NoResp, result |-> NoResult]

NoReg ==
    [stage |-> "none", base |-> "", client_id |-> "", client_secret |-> "",
     redirect |-> ""]

Init ==
    /\ reg = NoReg
    /\ mastodon = NoMastodon
    /\ page = None
    /\ last = NoCall

\* A method of Mastodon called with &self: the value is borrowed immutably,
\* so only the record of the call changes.
Call(op, resp, out) ==
    /\ mastodon.built # "none"
    /\ last' = [op |-> op, reqs |-> out.reqs,
                resp |-> IF out.reqs = <<>> THEN NoResp ELSE resp,
                result |-> out.result]
    /\ UNCHANGED <<reg, mastodon, page>>

SessionData ==
    [base : {Base}, client_id : {"abc"}, client_secret : {"xyz"},
     redirect : {Redirect}, token : Tokens]

\* Mastodon::from_data(data) on a deserialised Data record.
FromData ==
    \E data \in SessionData :
        /\ mastodon' = from_data(data)
        /\ last' = [NoCall EXCEPT !.op = "from_data"]
        /\ page' = None
        /\ UNCHANGED reg

(* ------------------------ the generated routes ------------------------- *)

\* (get) get_home_timeline: "timelines/home"
get_home_timeline ==
    \E resp \in Responses :
        Call("get_home_timeline", resp,
             route_plain("get", mastodon, "timelines/home", resp))

\* (post) clear_notifications: "notifications/clear"
clear_notifications ==
    \E resp \in Responses :
        Call("clear_notifications", resp,
             route_plain("post", mastodon, "notifications/clear", resp))

\* (delete (domain: String,)) unblock_domain: "domain_blocks"
unblock_domain ==
    \E resp \in Responses :
        Call("unblock_domain", resp,
             route_json("delete", mastodon, "domain_blocks", resp))

\* (post (account_id, status_ids, comment,)) report: "reports"
report ==
    \E resp \in Responses :
        Call("report", resp, route_json("post", mastodon, "reports", resp))

\* (post multipart (file,)) media: "media"
media ==
    \E resp \in Responses, fileOk \in BOOLEAN :
        Call("media", resp, route_multipart(mastodon, "media", fileOk, resp))

\* (get) get_account: "accounts/{}"
get_account ==
    \E resp \in Responses, id \in 1..MaxId :
        Call("get_account", resp,
             route_id("get", mastodon, "accounts/", id, "", resp))

\* (post) reblog: "statuses/{}/reblog"
reblog ==
    \E resp \in Responses, id \in 1..MaxId :
        Call("reblog", resp,
             route_id("post", mastodon, "statuses/", id, "/reblog", resp))

\* (delete) delete_status: "statuses/{}"
delete_status ==
    \E resp \in Responses, id \in 1..MaxId :
        Call("delete_status", resp,
             route_id("delete", mastodon, "statuses/", id, "", resp))

(* ----------------------- the hand-written routes ----------------------- *)

\* update_credentials: a PATCH with a multipart form, status checked first.
update_credentials_call(self, formOk, resp) ==
    IF ~formOk
    THEN Outcome(<<>>, ErrIo)
    ELSE Outcome(<<Request("patch",
                           route(self, "/api/v1/accounts/update_credentials"),
                           self, "multipart")>>,
                 IF ~resp.sent THEN ErrHttp ELSE status_check(resp))

update_credentials ==
    \E resp \in Responses, formOk \in BOOLEAN :
        Call("update_credentials", resp,
             update_credentials_call(mastodon, formOk, resp))

\* new_status: a POST with a JSON body, deserialised without a status check.
new_status_call(self, resp) ==
    Outcome(<<Request("post", route(self, "/api/v1/statuses"), self, "json")>>,
            IF ~resp.sent THEN ErrHttp ELSE deserialise(resp))

new_status ==
    \E resp \in Responses :
        Call("new_status", resp, new_status_call(mastodon, resp))

\* get_public_timeline(local)
get_public_timeline_call(self, local, resp) ==
    LET url == route(self, "/api/v1/timelines/public") IN
    methods("get", self, IF local THEN url \o "?local=1" ELSE url, resp)

get_public_timeline ==
    \E resp \in Responses, local \in BOOLEAN :
        Call("get_public_timeline", resp,
             get_public_timeline_call(mastodon, local, resp))

\* search_accounts(query)
search_accounts_call(self, query, resp) ==
    methods("get", self,
            self.data.base \o "/api/v1/accounts/search?q=" \o query, resp)

search_accounts ==
    \E resp \in Responses :
        Call("search_accounts", resp,
             search_accounts_call(mastodon, "alice", resp))

(* ------------------------- paged routes -------------------------------- *)

NextUrl == Base \o "/api/v1/favourites?max_id=5"

PrevUrl == Base \o "/api/v1/favourites?since_id=9"

\* Responses to a paged request: as above, and successful ones that carry
\* link headers.
PagedResponses ==
    Responses \cup
    { [Resp(200, JsonObj([id |-> "1"])) EXCEPT !.next = n, !.prev = p] :
        n \in {None, Some(NextUrl)}, p \in {None, Some(PrevUrl)} }

OkPage(cursor) == [NoResult EXCEPT !.kind = "Ok", !.page = <<cursor>>]

OkNoPage == [NoResult EXCEPT !.kind = "Ok"]

\* Page::new / from_response(dispatcher, response): the body decoded as by
\* deserialise, the next and prev links stored verbatim.
page_new(self, resp) ==
    LET r == deserialise(resp) IN
    IF r.kind = "Ok"
    THEN OkPage([items |-> r.val, next |-> resp.next, prev |-> resp.prev])
    ELSE r

\* paged_routes!: (get) favourites: "favourites"
favourites_call(self, resp) ==
    Outcome(<<Request("get", route(self, "/api/v1/favourites"), self, "none")>>,
            IF ~resp.sent THEN ErrHttp ELSE page_new(self, resp))

\* The caller keeps the cursor a successful call returns.
favourites ==
    \E resp \in PagedResponses :
        LET out == favourites_call(mastodon, resp) IN
        /\ mastodon.built # "none"
        /\ last' = [op |-> "favourites", reqs |-> out.reqs, resp |-> resp,
                    result |-> out.result]
        /\ page' = IF out.result.kind = "Ok" THEN out.result.page ELSE page
        /\ UNCHANGED <<reg, mastodon>>

\* follow_link advancing the receiver in place.
follow_link_in_place(cursor, link, self, resp) ==
    IF link = None
    THEN [reqs |-> <<>>, result |-> OkNoPage, cursor |-> cursor]
    ELSE [reqs |-> <<Request("get", link[1], self, "none")>>,
          result |-> IF ~resp.sent THEN ErrHttp ELSE page_new(self, resp),
          cursor |-> IF resp.sent
                     THEN [cursor EXCEPT !.next = resp.next, !.prev = resp.prev]
                     ELSE cursor]

\* Following one link of a cursor: nothing when the link is absent, else one
\* GET to the stored URL with the dispatcher's headers, and a new cursor
\* built from the response.  cursor is the receiver after the call.
follow_link(cursor, link, self, resp) ==
    IF link = None
    THEN [reqs |-> <<>>, result |-> OkNoPage, cursor |-> cursor]
    ELSE [reqs |-> <<Request("get", link[1], self, "none")>>,
          result |-> IF ~resp.sent THEN ErrHttp ELSE page_new(self, resp),
          cursor |-> cursor]

\* Cursor.next_page()
next_page_call(cursor, self, resp) == follow_link(cursor, cursor.next, self, resp)

\* Cursor.prev_page()
prev_page_call(cursor, self, resp) == follow_link(cursor, cursor.prev, self, resp)

CursorCall(op, resp, out) ==
    /\ last' = [op |-> op, reqs |-> out.reqs,
                resp |-> IF out.reqs = <<>> THEN NoResp ELSE resp,
                result |-> out.result]
    /\ page' = Some(out.cursor)
    /\ UNCHANGED <<reg, mastodon>>

next_page ==
    /\ page # None
    /\ \E resp \in PagedResponses :
          CursorCall("next_page", resp, next_page_call(page[1], mastodon, resp))

prev_page ==
    /\ page # None
    /\ \E resp \in PagedResponses :
          CursorCall("prev_page", resp, prev_page_call(page[1], mastodon, resp))

(* ------------------------ registration flow ---------------------------- *)

ErrClientIdRequired == [NoResult EXCEPT !.kind = "ClientIdRequired"]

ErrClientSecretRequired == [NoResult EXCEPT !.kind = "ClientSecretRequired"]

ErrProtocol == [NoResult EXCEPT !.kind = "Protocol"]

\* What the instance may answer to the app registration request.
RegisterBodies ==
    { Garbage,
      JsonObj([client_id |-> "abc", client_secret |-> "xyz"]),
      JsonObj([client_id |-> "id2", client_secret |-> "sec2"]),
      JsonObj([client_id |-> "abc"]),
      JsonObj([client_secret |-> "xyz"]) }

\* What the instance may answer to the token request.
TokenBodies ==
    { Garbage,
      JsonObj([access_token |-> "tok123"]),
      JsonObj([access_token |-> "tok456"]),
      JsonObj([error |-> "invalid_grant"]),
      JsonObj([error |-> "invalid_grant", error_description |-> "gone"]) }

FlowResponses(bodies) == {SendFailed} \cup {Resp(200, b) : b \in bodies}

\* A request of the registration flow carries no bearer credential.
FlowRequest(url) ==
    [method |-> "post", url |-> url, bearer |-> "", body |-> "form"]

\* Registration::new(base): the Unregistered stage.
registration_new(base) == [NoReg EXCEPT !.stage = "Unregistered", !.base = base]

RegistrationNew ==
    /\ reg' = registration_new(Base)
    /\ last' = [NoCall EXCEPT !.op = "new"]
    /\ UNCHANGED <<mastodon, page>>

\* register(app): one request to the app-registration endpoint; Registered
\* with the client_id and client_secret of the answer, else the prior stage.
register_call(r, redirect, resp) ==
    LET reqs == <<FlowRequest(r.base \o "/api/v1/apps")>> IN
    IF ~resp.sent
    THEN [reqs |-> reqs, result |-> ErrHttp, reg |-> r]
    ELSE IF HasField(resp.body, "client_id") /\ HasField(resp.body, "client_secret")
    THEN [reqs |-> reqs, result |-> OkNoPage,
          reg |-> [r EXCEPT !.stage = "Registered",
                            !.client_id = resp.body.obj.client_id,
                            !.client_secret = resp.body.obj.client_secret,
                            !.redirect = redirect]]
    ELSE [reqs |-> reqs, result |-> ErrProtocol, reg |-> r]

register ==
    /\ reg.stage = "Unregistered"
    /\ \E resp \in FlowResponses(RegisterBodies) :
          LET out == register_call(reg, Redirect, resp) IN
          /\ reg' = out.reg
          /\ last' = [op |-> "register", reqs |-> out.reqs, resp |-> resp,
                      result |-> out.result]
          /\ UNCHANGED <<mastodon, page>>

\* is_registered letting every stage through.
is_registered_unchecked(r) == OkNoPage

\* The check made before the later stages: both credentials must be held.
is_registered(r) ==
    IF r.stage # "Registered" \/ r.client_id = "" THEN ErrClientIdRequired
    ELSE IF r.client_secret = "" THEN ErrClientSecretRequired
    ELSE OkNoPage

\* authorize_url(): a pure computation of the authorization URL's parts.
authorise_call(r) ==
    IF is_registered(r).kind # "Ok"
    THEN is_registered(r)
    ELSE Ok([id |-> r.base \o "/oauth/authorize?client_id=" \o r.client_id
                      \o "&redirect_uri=" \o r.redirect
                      \o "&response_type=code"])

authorise ==
    /\ reg.stage \in {"Unregistered", "Registered"}
    /\ last' = [NoCall EXCEPT !.op = "authorise", !.result = authorise_call(reg)]
    /\ UNCHANGED <<reg, mastodon, page>>

\* exchange_code(code): one request to the token endpoint; on a token the
\* Session Record is built from the Registered stage's fields.
create_access_token_call(r, code, resp) ==
    LET reqs == <<FlowRequest(r.base \o "/oauth/token?code=" \o code)>> IN
    IF is_registered(r).kind # "Ok"
    THEN [reqs |-> <<>>, result |-> is_registered(r), reg |-> r,
          mastodon |-> <<>>]
    ELSE IF ~resp.sent
    THEN [reqs |-> reqs, result |-> ErrHttp, reg |-> r, mastodon |-> <<>>]
    ELSE IF HasField(resp.body, "access_token")
    THEN [reqs |-> reqs, result |-> OkNoPage,
          reg |-> [r EXCEPT !.stage = "Authorized"],
          mastodon |-> <<from_registration(r.base, r.client_id, r.client_secret,
                                           r.redirect,
                                           resp.body.obj.access_token)>>]
    ELSE [reqs |-> reqs,
          result |-> IF from_slice_ApiError(resp.body).ok
                     THEN ErrApi(from_slice_ApiError(resp.body).val[1])
                     ELSE ErrProtocol,
          reg |-> r, mastodon |-> <<>>]

create_access_token ==
    /\ reg.stage \in {"Unregistered", "Registered"}
    /\ \E resp \in FlowResponses(TokenBodies) :
          LET out == create_access_token_call(reg, "RETURNED_FROM_BROWSER", resp) IN
          /\ reg' = out.reg
          /\ mastodon' = IF out.mastodon = <<>> THEN mastodon ELSE out.mastodon[1]
          /\ page' = IF out.mastodon = <<>> THEN page ELSE None
          /\ last' = [op |-> "create_access_token", reqs |-> out.reqs,
                      resp |-> IF out.reqs = <<>> THEN NoResp ELSE resp,
                      result |-> out.result]

(* ------------------------- specifications ------------------------------ *)

Dispatch ==
    \/ get_home_timeline
    \/ clear_notifications
    \/ unblock_domain
    \/ report
    \/ media
    \/ get_account
    \/ reblog
    \/ delete_status
    \/ update_credentials
    \/ new_status
    \/ get_public_timeline
    \/ search_accounts
    \/ favourites

Next ==
    \/ FromData
    \/ RegistrationNew
    \/ register
    \/ authorise
    \/ create_access_token
    \/ Dispatch
    \/ next_page
    \/ prev_page

Spec == Init /\ [][Next]_vars

\* The Mastodon values the two constructors can have produced, each with
\* the registration it came from.
InitSession ==
    /\ \/ \E data \in SessionData :
            /\ mastodon = from_data(data)
            /\ reg = NoReg
       \/ \E token \in {"tok123", "tok456"} :
            /\ mastodon = from_registration(Base, "abc", "xyz", Redirect, token)
            /\ reg = [stage |-> "Authorized", base |-> Base, client_id |-> "abc",
                       client_secret |-> "xyz", redirect |-> Redirect]
    /\ page = None
    /\ last = NoCall

\* The request dispatcher on a constructed Mastodon.
SpecDispatch == InitSession /\ [][Dispatch]_vars

\* The registration flow of the crate's example: new, register, authorise,
\* create_access_token, then a first request.
Flow ==
    \/ RegistrationNew
    \/ register
    \/ authorise
    \/ create_access_token
    \/ get_home_timeline

SpecFlow == Init /\ [][Flow]_vars

\* Walking the pages of a paged route.
Paging ==
    \/ FromData
    \/ favourites
    \/ next_page
    \/ prev_page

SpecPage == Init /\ [][Paging]_vars

(* ------------------- vocabulary of the properties ---------------------- *)

DispatchOps ==
    {"get_home_timeline", "clear_notifications", "unblock_domain", "report",
     "media", "get_account", "reblog", "delete_status", "update_credentials",
     "new_status", "get_public_timeline", "search_accounts", "favourites"}

\* The routes whose code looks at the status before the body.
StatusCheckedOps == {"unblock_domain", "report", "media", "update_credentials"}

IsDispatch == last.op \in DispatchOps

\* A response came back for the last call's request.
Received == last.reqs # <<>> /\ last.resp.sent

\* The last call returned on the status alone.
StoppedOnStatus ==
    /\ last.op \in StatusCheckedOps
    /\ Received
    /\ last.resp.status >= 400

\* The last call read the whole body of its response.
BodyRead == Received /\ last.resp.readOk /\ ~StoppedOnStatus

\* The shapes of a body, as the documents of the API give them.
ErrorShaped(body) == body.json /\ "error" \in DOMAIN body.obj

SuccessShaped(body) == body.json /\ "id" \in DOMAIN body.obj

PayloadOf(body) ==
    [error |-> body.obj.error,
     error_description |->
        IF "error_description" \in DOMAIN body.obj
        THEN <<body.obj.error_description>> ELSE <<>>]

IsApiErrorOf(result, body) ==
    /\ result.kind = "Api"
    /\ result.api = <<PayloadOf(body)>>

\* The value the last call returned is the body decoded as the success type.
ReturnsSuccessOf(body) ==
    /\ last.result.kind = "Ok"
    /\ IF last.op = "favourites"
       THEN /\ last.result.page # <<>>
            /\ last.result.page[1].items = <<[id |-> body.obj.id]>>
       ELSE last.result.val = <<[id |-> body.obj.id]>>

(* ------------------------------- C1 ------------------------------------ *)

\* C1 as stated: on every route and for every status, a body with the
\* API Error Payload shape makes the call fail with ApiError carrying
\* exactly the body's error and error_description.
C1_ErrorBodyAlwaysApiError ==
    (IsDispatch /\ Received /\ last.resp.readOk /\ ErrorShaped(last.resp.body))
        => IsApiErrorOf(last.result, last.resp.body)

\* C1 amended: a body with the API Error Payload shape never yields a
\* DecodeError; it yields ClientError/ServerError when the route checks the
\* status and the status is 4xx/5xx, the success value when the body also
\* decodes as the success type, and otherwise ApiError carrying exactly the
\* body's error and error_description.
C1_ErrorBodyOutcome ==
    (IsDispatch /\ Received /\ last.resp.readOk /\ ErrorShaped(last.resp.body))
        => IF StoppedOnStatus
           THEN /\ last.result.kind =
                      (IF last.resp.status < 500 THEN "Client" ELSE "Server")
                /\ last.result.status = last.resp.status
           ELSE IF SuccessShaped(last.resp.body)
           THEN ReturnsSuccessOf(last.resp.body)
           ELSE IsApiErrorOf(last.result, last.resp.body)

\* An error body with a description, returned with a 4xx status to a route
\* without a status check, has come back as ApiError.
C1_Witness ==
    /\ last.op = "get_account"
    /\ BodyRead
    /\ last.resp.status = 404
    /\ ErrorShaped(last.resp.body)
    /\ ~SuccessShaped(last.resp.body)
    /\ "error_description" \in DOMAIN last.resp.body.obj
    /\ IsApiErrorOf(last.result, last.resp.body)

(* ------------------------------- C2 ------------------------------------ *)

\* C2 as stated: on every dispatch operation a 4xx status yields
\* ClientError(status) and a 5xx status yields ServerError(status),
\* whatever the body holds.
C2_StatusBeforeBody ==
    (IsDispatch /\ Received)
        => /\ is_client_error(last.resp.status)
                => last.result = ErrClient(last.resp.status)
           /\ is_server_error(last.resp.status)
                => last.result = ErrServer(last.resp.status)

(* ------------------------------- C3 ------------------------------------ *)

\* C3: a 2xx response whose body decodes neither as the success type nor
\* as an API Error Payload yields DecodeError carrying the failure of the
\* first, success-type, decode attempt.
C3_DecodeErrorIsFirstFailure ==
    (/\ IsDispatch
     /\ BodyRead
     /\ last.resp.status \in 200..299
     /\ ~SuccessShaped(last.resp.body)
     /\ ~ErrorShaped(last.resp.body))
        => /\ last.result.kind = "Serde"
           /\ last.result.serde = "success-type"

\* A 2xx JSON body of neither shape has been answered with the first failure.
C3_Witness ==
    /\ IsDispatch
    /\ BodyRead
    /\ last.resp.status = 200
    /\ last.resp.body.json
    /\ ~SuccessShaped(last.resp.body)
    /\ ~ErrorShaped(last.resp.body)
    /\ last.result = ErrSerde("success-type")

(* ------------------------------- C9 ------------------------------------ *)

\* C9: at the decode step the success type is tried first: a body that
\* decodes as the success type is returned as the success value even when
\* it has the error shape too, and ApiError is returned only for a body
\* that fails the success decode and has the error shape.
C9_SuccessTypeFirst ==
    (IsDispatch /\ BodyRead)
        => /\ SuccessShaped(last.resp.body) => ReturnsSuccessOf(last.resp.body)
           /\ last.result.kind = "Api"
                => /\ ~SuccessShaped(last.resp.body)
                   /\ ErrorShaped(last.resp.body)
                   /\ IsApiErrorOf(last.result, last.resp.body)

\* A body of both shapes has been returned as the success value.
C9_Witness ==
    /\ IsDispatch
    /\ BodyRead
    /\ SuccessShaped(last.resp.body)
    /\ ErrorShaped(last.resp.body)
    /\ ReturnsSuccessOf(last.resp.body)

(* ------------------------------- C4 ------------------------------------ *)

\* C4 as stated: with an empty token every dispatch operation fails with
\* AccessTokenRequired and puts no request on the wire.
C4_EmptyTokenFailsLocally ==
    (IsDispatch /\ mastodon.data.token = "")
        => /\ last.result.kind = "AccessTokenRequired"
           /\ last.reqs = <<>>

(* ------------------------------- C8 ------------------------------------ *)

\* The transport failed during the last call: send() failed, or the body
\* could not be read when the call came to read it.
TransportFailed ==
    /\ last.reqs # <<>>
    /\ \/ ~last.resp.sent
       \/ ~last.resp.readOk /\ ~StoppedOnStatus

\* C8 as stated: a dispatch call issues at most one request, and every
\* transport failure is returned as NetworkError (Error::Http).
C8_TransportFailureIsHttp ==
    IsDispatch
        => /\ Len(last.reqs) <= 1
           /\ TransportFailed => last.result = ErrHttp

\* C8 amended: a dispatch call issues at most one request and returns one
\* result; a failure of send() is returned as Error::Http and nothing else
\* is; a failure while reading the body of a received response is returned
\* as Error::Io; neither is retried or turned into a success.
C8_TransportFailureReportedOnce ==
    IsDispatch
        => /\ Len(last.reqs) <= 1
           /\ (last.reqs # <<>> /\ ~last.resp.sent) => last.result = ErrHttp
           /\ last.result.kind = "Http" => (last.reqs # <<>> /\ ~last.resp.sent)
           /\ (Received /\ ~last.resp.readOk /\ ~StoppedOnStatus)
                => last.result = ErrIo

\* A request was sent once, send() failed, and the call returned Error::Http.
C8_Witness ==
    /\ IsDispatch
    /\ Len(last.reqs) = 1
    /\ ~last.resp.sent
    /\ last.result = ErrHttp

(* ------------------------------- C10 ----------------------------------- *)

\* Every request of the last call carries the Session Record's token as
\* its bearer credential, and so does the stored header.
BearerIsToken ==
    /\ mastodon.headers.bearer = mastodon.data.token
    /\ IsDispatch =>
         \A i \in 1..Len(last.reqs) : last.reqs[i].bearer = mastodon.data.token

\* C10: no dispatch operation changes the Session Record or the stored
\* authorization header, and the bearer credential of every request is the
\* Session Record's token.
C10_SessionRecordStable ==
    /\ []BearerIsToken
    /\ [][last'.op \in DispatchOps => mastodon' = mastodon]_vars

\* A request has gone out carrying the token of a Session Record built by
\* from_registration.
C10_Witness ==
    /\ IsDispatch
    /\ mastodon.built = "from_registration"
    /\ Len(last.reqs) = 1
    /\ last.reqs[1].bearer = "tok456"
    /\ mastodon.data.token = "tok456"

(* ------------------------------- C5 ------------------------------------ *)

FlowOps == {"register", "authorise", "create_access_token"}

Succeeds(op) == last'.op = op /\ last'.result.kind = "Ok"

\* C5: a successful register stores exactly the client_id and
\* client_secret of the instance's answer, and a successful exchange_code
\* yields a Session Record whose token is the access_token of the answer
\* and whose other fields are those held in the Registered stage.
C5_FlowCarriesValues ==
    [][/\ Succeeds("register")
            => /\ reg'.stage = "Registered"
               /\ reg'.client_id = last'.resp.body.obj.client_id
               /\ reg'.client_secret = last'.resp.body.obj.client_secret
               /\ reg'.base = reg.base
       /\ Succeeds("create_access_token")
            => /\ reg.stage = "Registered"
               /\ mastodon'.data =
                    [base |-> reg.base, client_id |-> reg.client_id,
                     client_secret |-> reg.client_secret,
                     redirect |-> reg.redirect,
                     token |-> last'.resp.body.obj.access_token]]_vars

\* The flow of the example has run to its end: registered as abc/xyz and
\* authorised with tok123.
C5_Witness ==
    /\ last.op = "create_access_token"
    /\ last.result.kind = "Ok"
    /\ reg.stage = "Authorized"
    /\ mastodon.data.client_id = "abc"
    /\ mastodon.data.client_secret = "xyz"
    /\ mastodon.data.token = "tok123"

(* ------------------------------- C6 ------------------------------------ *)

\* C6: the flow only moves Unregistered -> Registered -> Authorized (or
\* starts over with a fresh Registration); a Session Record is produced
\* only by a successful exchange_code in the Registered stage;
\* authorize_url and exchange_code before a successful register fail
\* locally with ClientIdRequired/ClientSecretRequired and send nothing; a
\* failed stage leaves the flow as it was; no stage sends more than one
\* request and authorize_url sends none.
C6_FlowMovesForward ==
    [][/\ reg'.stage # reg.stage
            => \/ reg'.stage = "Unregistered" /\ last'.op = "new"
               \/ /\ reg.stage = "Unregistered" /\ reg'.stage = "Registered"
                  /\ Succeeds("register")
               \/ /\ reg.stage = "Registered" /\ reg'.stage = "Authorized"
                  /\ Succeeds("create_access_token")
       /\ mastodon' # mastodon
            => /\ reg.stage = "Registered" /\ reg'.stage = "Authorized"
               /\ Succeeds("create_access_token")
       /\ (last'.op \in {"authorise", "create_access_token"}
              /\ reg.stage = "Unregistered")
            => /\ last'.result.kind \in {"ClientIdRequired", "ClientSecretRequired"}
               /\ last'.reqs = <<>>
       /\ (last'.op \in FlowOps /\ last'.result.kind # "Ok")
            => reg' = reg /\ mastodon' = mastodon
       /\ last'.op \in FlowOps => Len(last'.reqs) <= 1
       /\ last'.op = "authorise" => last'.reqs = <<>>]_vars

\* exchange_code was called before register and failed without a request.
C6_Witness ==
    /\ last.op = "create_access_token"
    /\ reg.stage = "Unregistered"
    /\ last.result.kind = "ClientIdRequired"
    /\ last.reqs = <<>>
    /\ mastodon.built = "none"

(* ------------------------------- C7 ------------------------------------ *)

\* What following link does to a cursor: the cursor itself is unchanged;
\* with no link nothing is returned and nothing sent; with a link exactly
\* one GET goes to that URL with the session's bearer token, and a cursor
\* returned has the items and links of that response.
FollowsLink(link) ==
    /\ page' = page
    /\ IF link = None
       THEN last'.result = OkNoPage /\ last'.reqs = <<>>
       ELSE /\ last'.reqs = <<[method |-> "get", url |-> link[1],
                               bearer |-> mastodon.data.token,
                               body |-> "none"]>>
            /\ last'.result.kind = "Ok"
                 => last'.result.page =
                      <<[items |-> <<[id |-> last'.resp.body.obj.id]>>,
                         next |-> last'.resp.next,
                         prev |-> last'.resp.prev]>>

\* C7: next_page() with next absent returns none and sends nothing; with
\* next present it sends one authenticated GET to exactly the stored URL
\* and returns a new cursor built from that response, leaving the original
\* cursor unchanged; prev_page() does the same with prev.
C7_CursorSteps ==
    [][/\ last'.op = "next_page" => FollowsLink(page[1].next)
       /\ last'.op = "prev_page" => FollowsLink(page[1].prev)]_vars

\* next_page() has fetched the stored URL and returned a cursor that
\* differs from the one it was called on.
C7_Witness ==
    /\ last.op = "next_page"
    /\ page # None
    /\ page[1].next = Some(NextUrl)
    /\ Len(last.reqs) = 1
    /\ last.reqs[1].url = NextUrl
    /\ last.result.kind = "Ok"
    /\ last.result.page # <<>>
    /\ last.result.page[1] # page[1]

====
